---- MODULE Spec2Model ----
(***************************************************************************)
(* A model of tv-shows-viewers.py: the scrape -> frame -> clean ->         *)
(* aggregate -> render pipeline driven by main().                          *)
(*                                                                         *)
(* Texts are tuples of tokens (one token per character, except that a      *)
(* word without any character the code looks at is one token).  A cell of  *)
(* a table is a record [t, s, n, d]: t is the kind of the value ("str",    *)
(* "int", "float", "date", "null"), s the text of a string, n/d the        *)
(* number (d = 1 for integers and dates).                                  *)
(***************************************************************************)
EXTENDS Integers, Sequences, FiniteSets, TLC

-----------------------------------------------------------------------------
(* Bounds of the model *)

\* How many season fetches of one run may deviate from the well-formed page.
MaxAnomalies == 1

\* How many times the Aggregation Writer is run in the cleaner specification.
MaxAggRuns == 2

-----------------------------------------------------------------------------
(* Cell values *)

StrC(s)   == [t |-> "str",   s |-> s,    n |-> 0, d |-> 1]
IntC(n)   == [t |-> "int",   s |-> <<>>, n |-> n, d |-> 1]
NullC     == [t |-> "null",  s |-> <<>>, n |-> 0, d |-> 1]
DateC(n)  == [t |-> "date",  s |-> <<>>, n |-> n, d |-> 1]
FloatC(n, d) == [t |-> "float", s |-> <<>>, n |-> n, d |-> d]

\* The outcome of a conversion that raises.
Raise    == [t |-> "raise", s |-> <<>>, n |-> 0, d |-> 1]

notna(c) == c.t # "null"

-----------------------------------------------------------------------------
(* Text helpers: Python's str methods and the number parsers *)

Digits == {"0", "1", "2", "3", "4", "5", "6", "7", "8", "9"}

DigitVal(c) ==
  CASE c = "0" -> 0 [] c = "1" -> 1 [] c = "2" -> 2 [] c = "3" -> 3
    [] c = "4" -> 4 [] c = "5" -> 5 [] c = "6" -> 6 [] c = "7" -> 7
    [] c = "8" -> 8 [] c = "9" -> 9

RECURSIVE DigitsVal(_)
DigitsVal(s) ==
  IF s = <<>> THEN 0
  ELSE 10 * DigitsVal(SubSeq(s, 1, Len(s) - 1)) + DigitVal(s[Len(s)])

AllDigits(s) == s # <<>> /\ \A i \in 1..Len(s) : s[i] \in Digits

RECURSIVE Pow10(_)
Pow10(k) == IF k = 0 THEN 1 ELSE 10 * Pow10(k - 1)

RECURSIVE GCD(_, _)
GCD(a, b) == IF b = 0 THEN a ELSE GCD(b, a % b)

Abs(x) == IF x < 0 THEN -x ELSE x

\* A rational n/d in lowest terms with d > 0, as a float cell.
Ratio(n, d) ==
  LET g == GCD(Abs(n), d) IN
  IF g = 0 THEN FloatC(0, 1) ELSE FloatC(n \div g, d \div g)

\* str.strip(): leading and trailing blanks removed.
RECURSIVE strip(_)
strip(s) ==
  IF s = <<>> THEN s
  ELSE IF s[1] = " " THEN strip(Tail(s))
  ELSE IF s[Len(s)] = " " THEN strip(SubSeq(s, 1, Len(s) - 1))
  ELSE s

\* str.replace(old, new) for a one-token old and new.
str_replace(s, old, new) ==
  [i \in 1..Len(s) |-> IF s[i] = old THEN new ELSE s[i]]

\* The least index >= i of token c in s, or 0.
RECURSIVE IndexFrom(_, _, _)
IndexFrom(s, c, i) ==
  IF i > Len(s) THEN 0
  ELSE IF s[i] = c THEN i
  ELSE IndexFrom(s, c, i + 1)

\* Mutant of strip_citations: only the brackets go, what they enclose stays.
strip_brackets_only(s) == SelectSeq(s, LAMBDA c : c \notin {"[", "]"})

\* re.sub(r"\[.*?\]", "", s): scanning left to right, each "[" that has a
\* "]" after it is removed together with everything up to the first such "]"
\* ("." does not match a line break, so a marker never spans one).
RECURSIVE strip_citations(_)
strip_citations(s) ==
  IF s = <<>> THEN s
  ELSE IF s[1] = "["
    THEN LET close == IndexFrom(s, "]", 2)
             nl    == IndexFrom(s, "\n", 2)
         IN  IF close # 0 /\ (nl = 0 \/ nl > close)
               THEN strip_citations(SubSeq(s, close + 1, Len(s)))
               ELSE <<s[1]>> \o strip_citations(Tail(s))
    ELSE <<s[1]>> \o strip_citations(Tail(s))

\* int(text): blanks around it ignored, an optional sign, then digits only.
to_int_text(s0) ==
  LET s    == strip(s0)
      neg  == s # <<>> /\ s[1] = "-"
      body == IF s # <<>> /\ s[1] \in {"-", "+"} THEN Tail(s) ELSE s
  IN  IF AllDigits(body)
        THEN IntC(IF neg THEN -DigitsVal(body) ELSE DigitsVal(body))
        ELSE Raise

\* float(text): blanks around it ignored, an optional sign, digits with at
\* most one ".", at least one digit; "nan" in any case is the null float.
to_float_text(s0) ==
  LET s    == strip(s0)
      neg  == s # <<>> /\ s[1] = "-"
      body == IF s # <<>> /\ s[1] \in {"-", "+"} THEN Tail(s) ELSE s
      dot  == IndexFrom(body, ".", 1)
      ip   == IF dot = 0 THEN body ELSE SubSeq(body, 1, dot - 1)
      fp   == IF dot = 0 THEN <<>> ELSE SubSeq(body, dot + 1, Len(body))
      ok   == /\ ip \o fp # <<>>
              /\ \A i \in 1..Len(ip) : ip[i] \in Digits
              /\ \A i \in 1..Len(fp) : fp[i] \in Digits
      mag  == DigitsVal(ip) * Pow10(Len(fp)) + DigitsVal(fp)
  IN  IF body \in {<<"n", "a", "n">>, <<"N", "a", "N">>, <<"N", "A", "N">>}
        THEN NullC
      ELSE IF ok THEN Ratio(IF neg THEN -mag ELSE mag, Pow10(Len(fp)))
      ELSE Raise

\* pd.to_datetime's spellings of the null date.
nat_strings ==
  { <<"N", "a", "T">>, <<"n", "a", "t">>, <<"N", "A", "T">>,
    <<"n", "a", "n">>, <<"N", "a", "N">>, <<"N", "A", "N">> }

MonthNo(m) ==
  CASE m = "January" -> 1 [] m = "February" -> 2 [] m = "March" -> 3
    [] m = "April" -> 4 [] m = "May" -> 5 [] m = "June" -> 6
    [] m = "July" -> 7 [] m = "August" -> 8 [] m = "September" -> 9
    [] m = "October" -> 10 [] m = "November" -> 11 [] m = "December" -> 12
    [] OTHER -> 0

NoBlanks(s) == SelectSeq(s, LAMBDA c : c # " ")

\* pd.to_datetime(text) for the page's date style, "January 20, 2008": a null
\* spelling is the null date, a month name, a day, a comma and a year is
\* that date (as yyyymmdd), any other text raises.
to_datetime_text(s0) ==
  LET s     == NoBlanks(s0)
      comma == IndexFrom(s, ",", 1)
      day   == IF comma > 2 THEN SubSeq(s, 2, comma - 1) ELSE <<>>
      year  == IF comma > 2 THEN SubSeq(s, comma + 1, Len(s)) ELSE <<>>
  IN  IF strip(s0) \in nat_strings THEN NullC
      ELSE IF /\ comma > 2
              /\ MonthNo(s[1]) # 0
              /\ AllDigits(day) /\ DigitsVal(day) \in 1..31
              /\ AllDigits(year) /\ Len(year) = 4
        THEN DateC(DigitsVal(year) * 10000 + MonthNo(s[1]) * 100 + DigitsVal(day))
      ELSE Raise

-----------------------------------------------------------------------------
(* The configuration of main() *)

The_Sopranos    == <<"The", "_", "Sopranos">>
Game_of_Thrones == <<"Game", "_", "of", "_", "Thrones">>
Breaking_Bad    == <<"Breaking", "_", "Bad">>

\* shows.keys() in insertion order, and shows[show].
ShowOrder == <<The_Sopranos, Game_of_Thrones, Breaking_Bad>>

shows(show) ==
  CASE show = The_Sopranos    -> <<1, 2, 3, 4, 5, 6>>
    [] show = Game_of_Thrones -> <<1, 2, 3, 4, 5, 6, 7, 8>>
    [] show = Breaking_Bad    -> <<1, 2, 3, 4, 5>>

\* The tokens of the show names in Python's string order.
TokenOrder ==
  <<" ", "Bad", "Breaking", "Game", "Sopranos", "The", "Thrones", "_", "of">>

Ord(tok) == CHOOSE i \in 1..Len(TokenOrder) : TokenOrder[i] = tok

\* a < b for two texts, as Python compares strings.
RECURSIVE TextLess(_, _)
TextLess(a, b) ==
  IF b = <<>> THEN FALSE
  ELSE IF a = <<>> THEN TRUE
  ELSE IF a[1] = b[1] THEN TextLess(Tail(a), Tail(b))
  ELSE Ord(a[1]) < Ord(b[1])

-----------------------------------------------------------------------------
(* Page Table Extractor: get_tv_show_viewers *)

\* The answer of the remote page: no usable table (the fetch, the session or
\* tables[season] raises), or the rows of the table at index season, each a
\* sequence of cell texts.
NoTable     == [found |-> FALSE, rows |-> <<>>]
Table(rows) == [found |-> TRUE, rows |-> rows]

\* row_data of one row: the stripped texts of the cells whose stripped text is
\* not empty.
row_data(cells) ==
  LET texts == [i \in 1..Len(cells) |-> strip(cells[i])]
      kept  == SelectSeq(texts, LAMBDA x : x # <<>>)
  IN  [i \in 1..Len(kept) |-> StrC(kept[i])]

\* Mutant of get_tv_show_viewers: the rows are tagged with the next season.
RECURSIVE get_tv_show_viewers_next_season(_, _, _)
get_tv_show_viewers_next_season(rows, show, season) ==
  IF rows = <<>> THEN <<>>
  ELSE LET rd == row_data(rows[1]) IN
       (IF rd # <<>> THEN << rd \o <<IntC(season + 1), StrC(show)>> >> ELSE <<>>)
         \o get_tv_show_viewers_next_season(Tail(rows), show, season)

\* results: every row with at least one non-empty cell, followed by the
\* season and the show.
RECURSIVE get_tv_show_viewers(_, _, _)
get_tv_show_viewers(rows, show, season) ==
  IF rows = <<>> THEN <<>>
  ELSE LET rd == row_data(rows[1]) IN
       (IF rd # <<>> THEN << rd \o <<IntC(season), StrC(show)>> >> ELSE <<>>)
         \o get_tv_show_viewers(Tail(rows), show, season)

-----------------------------------------------------------------------------
(* Season Frame Builder: pd.DataFrame(results[1:], columns=[...]) *)

\* The column names of the frame, in the order of scrape_show_data.
FrameColumns ==
  << "Overall number", "No in Season", "Title", "Directed by", "Written by",
     "Original air date", "US viewers (millions)", "Season", "Show" >>

ColumnSet == {FrameColumns[i] : i \in 1..Len(FrameColumns)}

RECURSIVE MaxWidth(_)
MaxWidth(rows) ==
  IF rows = <<>> THEN 0
  ELSE LET m == MaxWidth(Tail(rows)) IN
       IF Len(rows[1]) > m THEN Len(rows[1]) ELSE m

ColumnIndex ==
  [col \in ColumnSet |-> CHOOSE i \in 1..Len(FrameColumns) : FrameColumns[i] = col]

ColumnNo(col) == ColumnIndex[col]

\* A frame is [ok, rows]; a row is [index, origin, cells]: the label of the
\* row in the frame's index, the (show, season) whose fetch produced it
\* (history, no column of the frame), and the cell of each column.  The frame
\* is as wide as its longest row: shorter rows are padded with nulls on the
\* right, and a width other than the nine names raises.
DataFrame(data, show, season) ==
  IF data # <<>> /\ MaxWidth(data) # Len(FrameColumns)
    THEN [ok |-> FALSE, rows |-> <<>>]
    ELSE [ok |-> TRUE,
          rows |-> [i \in 1..Len(data) |->
                     [index  |-> i - 1,
                      origin |-> <<show, season>>,
                      cells  |-> [col \in ColumnSet |->
                                   IF ColumnNo(col) <= Len(data[i])
                                     THEN data[i][ColumnNo(col)]
                                     ELSE NullC]]]]

\* df[df["Original air date"].notna()]
dropna_air_date(rows) ==
  SelectSeq(rows, LAMBDA r : notna(r.cells["Original air date"]))

\* Mutant of except_propagates: the handler lets the exception through.
except_reraises(raised) == raised

\* The except clause of scrape_show_data: "except Exception ... continue"
\* catches whatever the try block raised, so nothing propagates to main.
except_propagates(raised) == FALSE

\* Mutant of scrape_season: a season that raises leaves an empty table
\* behind, as if the table were set up anew in the handler.
scrape_season_reset(df, page, show, season) ==
  IF ~page.found
    THEN [df |-> <<>>, fetched |-> FALSE, framed |-> FALSE, data |-> <<>>,
          propagated |-> FALSE]
  ELSE LET results == get_tv_show_viewers(page.rows, show, season)
           data    == IF results = <<>> THEN <<>> ELSE Tail(results)
           df1     == DataFrame(data, show, season)
       IN  IF df1.ok
             THEN [df |-> dropna_air_date(df \o df1.rows), fetched |-> TRUE,
                   framed |-> TRUE, data |-> data, propagated |-> FALSE]
             ELSE [df |-> <<>>, fetched |-> TRUE, framed |-> FALSE,
                   data |-> data, propagated |-> FALSE]

\* One iteration of the loop of scrape_show_data on the page's answer: the
\* table accumulated so far with the season's air-dated rows appended, or
\* the table unchanged when anything in the try block raises.  fetched and
\* framed say how far the try block got, data is results[1:].
scrape_season(df, page, show, season) ==
  IF ~page.found
    THEN [df |-> df, fetched |-> FALSE, framed |-> FALSE, data |-> <<>>,
          propagated |-> except_propagates(TRUE)]
  ELSE LET results == get_tv_show_viewers(page.rows, show, season)
           data    == IF results = <<>> THEN <<>> ELSE Tail(results)
           df1     == DataFrame(data, show, season)
       IN  IF df1.ok
             THEN [df |-> dropna_air_date(df \o df1.rows), fetched |-> TRUE,
                   framed |-> TRUE, data |-> data, propagated |-> FALSE]
             ELSE [df |-> df, fetched |-> TRUE, framed |-> FALSE,
                   data |-> data, propagated |-> except_propagates(TRUE)]

-----------------------------------------------------------------------------
(* Cleaner/Normalizer: clean_and_save_data *)

\* The column order of line 117, which is the order of the CSV.
CanonicalColumns ==
  << "Show", "Overall number", "Season", "No in Season", "Title",
     "Directed by", "Written by", "Original air date",
     "US viewers (millions)" >>

N_A == <<"N", "/", "A">>

\* Mutant of str_accessor_underscore: the show name is left as configured.
str_accessor_keep(c) == IF c.t = "str" THEN c ELSE NullC

\* Series.str.replace: a string is rewritten, anything else becomes null.
str_accessor_citations(c) ==
  IF c.t = "str" THEN StrC(strip_citations(c.s)) ELSE NullC

str_accessor_underscore(c) ==
  IF c.t = "str" THEN StrC(str_replace(c.s, "_", " ")) ELSE NullC

\* Series.replace("N/A", np.nan): only a value equal to "N/A" is replaced.
replace_na(c) == IF c = StrC(N_A) THEN NullC ELSE c

\* astype(int) of one value of an object column.
astype_int(c) ==
  CASE c.t = "int" -> c
    [] c.t = "str" -> to_int_text(c.s)
    [] OTHER       -> Raise

\* astype(float) of one value: null stays null.
astype_float(c) ==
  CASE c.t = "int"   -> FloatC(c.n, 1)
    [] c.t = "float" -> c
    [] c.t = "null"  -> NullC
    [] c.t = "str"   -> to_float_text(c.s)
    [] OTHER         -> Raise

\* pd.to_datetime of one value: null stays null.
to_datetime(c) ==
  CASE c.t = "null" -> NullC
    [] c.t = "date" -> c
    [] c.t = "str"  -> to_datetime_text(c.s)
    [] OTHER        -> Raise

\* df[col] = f(df[col]) on every row.
Assign(rows, col, f(_)) ==
  [i \in 1..Len(rows) |->
    [rows[i] EXCEPT !.cells = [@ EXCEPT ![col] = f(@)]]]

\* Mutant of Raises: a coercion that fails is not noticed.
RaisesIgnored(rows, col) == FALSE

Raises(rows, col) == \E i \in 1..Len(rows) : rows[i].cells[col].t = "raise"

\* Mutant of clean: "N/A" is replaced before the citation markers are
\* stripped (lines 118 and 120 exchanged).
clean_na_first(df) ==
  LET d118 == Assign(df,   "US viewers (millions)", replace_na)
      d119 == Assign(d118, "Show", str_accessor_underscore)
      d120 == Assign(d119, "US viewers (millions)", str_accessor_citations)
      d121 == Assign(d120, "Overall number", astype_int)
      d122 == Assign(d121, "Season", astype_int)
      d123 == Assign(d122, "No in Season", astype_int)
      d124 == Assign(d123, "US viewers (millions)", astype_float)
      d125 == Assign(d124, "Original air date", to_datetime)
  IN  IF \/ Raises(d121, "Overall number") \/ Raises(d122, "Season")
         \/ Raises(d123, "No in Season")
         \/ Raises(d124, "US viewers (millions)")
         \/ Raises(d125, "Original air date")
        THEN [ok |-> FALSE, rows |-> <<>>]
        ELSE [ok |-> TRUE, rows |-> d125]

\* Lines 117-125: the typed table, or ok = FALSE when a coercion raises.
\* Once a coercion has raised, nothing after it is evaluated.
clean(df) ==
  LET d118 == Assign(df,   "US viewers (millions)", str_accessor_citations)
      d119 == Assign(d118, "Show", str_accessor_underscore)
      d120 == Assign(d119, "US viewers (millions)", replace_na)
      d121 == Assign(d120, "Overall number", astype_int)
      d122 == Assign(d121, "Season", astype_int)
      d123 == Assign(d122, "No in Season", astype_int)
      d124 == Assign(d123, "US viewers (millions)", astype_float)
      d125 == Assign(d124, "Original air date", to_datetime)
  IN  IF Raises(d121, "Overall number") THEN [ok |-> FALSE, rows |-> <<>>]
      ELSE IF Raises(d122, "Season") THEN [ok |-> FALSE, rows |-> <<>>]
      ELSE IF Raises(d123, "No in Season") THEN [ok |-> FALSE, rows |-> <<>>]
      ELSE IF Raises(d124, "US viewers (millions)")
        THEN [ok |-> FALSE, rows |-> <<>>]
      ELSE IF Raises(d125, "Original air date")
        THEN [ok |-> FALSE, rows |-> <<>>]
      ELSE [ok |-> TRUE, rows |-> d125]

\* DataFrame.to_csv(index=False): the header and one line of cells per row.
to_csv(rows) ==
  <<[i \in 1..Len(CanonicalColumns) |-> StrC(<<CanonicalColumns[i]>>)]>>
    \o [r \in 1..Len(rows) |->
         [i \in 1..Len(CanonicalColumns) |-> rows[r].cells[CanonicalColumns[i]]]]

-----------------------------------------------------------------------------
(* Aggregation Writer: save_aggregated_data *)

\* a < b, a + b for float cells.
FloatLess(a, b) == a.n * b.d < b.n * a.d
FloatAdd(a, b)  == Ratio(a.n * b.d + b.n * a.d, a.d * b.d)

RECURSIVE FloatSum(_)
FloatSum(vals) ==
  IF vals = <<>> THEN FloatC(0, 1) ELSE FloatAdd(vals[1], FloatSum(Tail(vals)))

\* The non-null viewership values of the rows (nulls are skipped).
Viewers(rows) ==
  LET v == [i \in 1..Len(rows) |-> rows[i].cells["US viewers (millions)"]]
  IN  SelectSeq(v, notna)

mean(rows) ==
  LET v == Viewers(rows) IN
  IF v = <<>> THEN NullC
  ELSE LET s == FloatSum(v) IN Ratio(s.n, s.d * Len(v))

max(rows) ==
  LET v == Viewers(rows) IN
  IF v = <<>> THEN NullC
  ELSE CHOOSE x \in {v[i] : i \in 1..Len(v)} :
         \A j \in 1..Len(v) : ~FloatLess(x, v[j])

min(rows) ==
  LET v == Viewers(rows) IN
  IF v = <<>> THEN NullC
  ELSE CHOOSE x \in {v[i] : i \in 1..Len(v)} :
         \A j \in 1..Len(v) : ~FloatLess(v[j], x)

\* The group key of a row: the cells of the key columns.
Key(r, by) == [k \in 1..Len(by) |-> r.cells[by[k]]]

\* Keys compare column by column: texts as strings, numbers by value.
CellLess(a, b) == IF a.t = "str" THEN TextLess(a.s, b.s) ELSE a.n < b.n

RECURSIVE KeyLess(_, _)
KeyLess(a, b) ==
  IF a = <<>> \/ b = <<>> THEN FALSE
  ELSE IF a[1] = b[1] THEN KeyLess(Tail(a), Tail(b))
  ELSE CellLess(a[1], b[1])

\* The keys in increasing order (groupby sorts them).
RECURSIVE SortKeys(_)
SortKeys(keys) ==
  IF keys = {} THEN <<>>
  ELSE LET k == CHOOSE x \in keys : \A y \in keys : ~KeyLess(y, x)
       IN  <<k>> \o SortKeys(keys \ {k})

\* df.groupby(by)["US viewers (millions)"].<stat>().to_csv(): a header, then
\* one line per group key present in the table, keys with a null dropped.
groupby_to_csv(df, by, stat(_)) ==
  LET keyed == SelectSeq(df, LAMBDA r : \A k \in 1..Len(by) : notna(r.cells[by[k]]))
      keys  == SortKeys({Key(keyed[i], by) : i \in 1..Len(keyed)})
  IN  <<[k \in 1..Len(by) + 1 |->
          IF k <= Len(by) THEN StrC(<<by[k]>>)
                          ELSE StrC(<<"US viewers (millions)">>)]>>
        \o [g \in 1..Len(keys) |->
             keys[g] \o <<stat(SelectSeq(keyed, LAMBDA r : Key(r, by) = keys[g]))>>]

-----------------------------------------------------------------------------
(* The pages the model lets the remote site answer with *)

T(tok) == <<tok>>

HeaderRow ==
  << T("No. overall"), T("No. in season"), T("Title"), T("Directed by"),
     T("Written by"), T("Original air date"), T("U.S. viewers (millions)") >>

D_ok  == <<"January", " ", "2", "0", ",", " ", "2", "0", "0", "8">>
D_tba == <<"T", "B", "A">>
D_nat == <<"N", "a", "T">>

V_12_3 == <<"1", "2", ".", "3", "[", "4", "]">>
V_10_6 == <<"1", "0", ".", "6", "[", "a", "]">>
V_7    == <<"7">>
V_3_27 == <<"3", ",", "2", "7", "[", "1", "]", "[", "2", "]">>
V_na_c == <<"N", "/", "A", "[", "b", "]">>
V_neg  == <<"-", "1", ".", "5">>
V_open == <<"9", ".", "1", "[", "5">>

Episode(overall, no, date, viewers) ==
  << overall, no, T("Title"), T("Director"), T("Writer"), date, viewers >>

\* The well-formed page of a season: the header and one episode.
NormalPage == Table(<<HeaderRow, Episode(T("1"), T("1"), D_ok, V_12_3)>>)

\* Pages with a row that the frame cannot hold as it stands: three cells
\* (no air-date field in the frame); date and viewers cells empty, so that
\* the later fields move left; one column more than the frame has.
ShortRowPage ==
  Table(<<HeaderRow, Episode(T("1"), T("1"), D_ok, V_10_6),
          <<T("2"), T("2"), <<" ">>, T("Title"), <<>>, <<>>, <<>>>> >>)
ShiftedRowPage ==
  Table(<<HeaderRow, Episode(T("1"), T("1"), D_ok, V_12_3),
          Episode(T("2"), T("2"), <<>>, <<" ">>) >>)
WidePage ==
  Table(<<HeaderRow \o <<T("Prod. code")>>,
          Episode(T("1"), T("1"), D_ok, V_12_3) \o <<T("101")>> >>)

\* Pages of the frame's width, one episode with the given texts.
OnePage(overall, date, viewers) ==
  Table(<<HeaderRow, Episode(overall, T("1"), date, viewers)>>)

\* Two episodes of one season; with one episode number twice.
TwoPage   == Table(<<HeaderRow, Episode(T("1"), T("1"), D_ok, V_10_6),
                     Episode(T("2"), T("2"), D_ok, V_7) >>)
RepeatPage == Table(<<HeaderRow, Episode(T("1"), T("1"), D_ok, V_7),
                      Episode(T("2"), T("1"), D_ok, N_A) >>)

\* The deviations a fetch of the pipeline may be answered with.
AnomalousPages ==
  { NoTable, ShortRowPage, ShiftedRowPage, WidePage, OnePage(T("1"), D_nat, V_7) }

\* The pages the cleaner specification draws its tables from.
CleanerPages ==
  { NormalPage, TwoPage, RepeatPage, ShortRowPage, ShiftedRowPage, NoTable,
    OnePage(T("1"), D_tba, V_7),
    OnePage(T("1"), D_ok, N_A),
    OnePage(T("1"), D_ok, V_na_c),
    OnePage(T("1"), D_ok, V_3_27),
    OnePage(T("1"), D_ok, V_neg),
    OnePage(T("1"), D_ok, V_open),
    OnePage(<<"1", "a">>, D_ok, V_7),
    OnePage(T("1"), D_nat, V_7) }

-----------------------------------------------------------------------------
(* The file system *)

csv_canonical == <<"output/dataframes/", "tv-show-viewers.csv">>
csv_avg_show  == <<"output/dataframes/", "average-viewership-byshow.csv">>
csv_avg_seas  == <<"output/dataframes/", "average-viewership-byseason.csv">>
csv_max_show  == <<"output/dataframes/", "max-viewership-byshow.csv">>
csv_min_show  == <<"output/dataframes/", "min-viewership-byshow.csv">>
png_line      == <<"output/visualisations/", "average-viewership-byseason.png">>
png_bar       == <<"output/visualisations/", "average-max-min-viewership-byshow.png">>

lower(tok) ==
  CASE tok = "The" -> "the" [] tok = "Sopranos" -> "sopranos"
    [] tok = "Game" -> "game" [] tok = "Thrones" -> "thrones"
    [] tok = "Breaking" -> "breaking" [] tok = "Bad" -> "bad"
    [] OTHER -> tok

\* f'output/visualisations/{show.lower().replace(" ", "")}-heatmap.png'
png_heatmap(show) ==
  <<"output/visualisations/">>
    \o NoBlanks([i \in 1..Len(show) |-> lower(show[i])])
    \o <<"-heatmap.png">>

\* The name main passes to plot_heatmap: show.replace("_", " ").
heatmap_name(show) == str_replace(show, "_", " ")

AggregateFiles == {csv_avg_show, csv_avg_seas, csv_max_show, csv_min_show}

Paths ==
  {csv_canonical, png_line, png_bar} \cup AggregateFiles
    \cup {png_heatmap(heatmap_name(ShowOrder[i])) : i \in 1..Len(ShowOrder)}

Directories == {"output/dataframes/", "output/visualisations/"}

\* A file is the sequence of its lines; no lines means the file is absent.
Absent == <<>>

\* Mutant of WriteFile: the file is opened for appending.
AppendFile(files, path, content) == [files EXCEPT ![path] = @ \o content]

\* Opening a file for writing replaces what it held.
WriteFile(files, path, content) == [files EXCEPT ![path] = content]

\* What an earlier run left on disk: its artifacts, from that run's pages.
OldTable ==
  clean(scrape_season(<<>>,
          Table(<<HeaderRow, Episode(T("1"), T("1"), D_ok, V_7)>>),
          Breaking_Bad, 1).df).rows

LeftOver ==
  [p \in Paths |->
    CASE p = csv_canonical -> to_csv(OldTable)
      [] p = csv_avg_show  -> groupby_to_csv(OldTable, <<"Show">>, mean)
      [] p = csv_avg_seas  -> groupby_to_csv(OldTable, <<"Show", "Season">>, mean)
      [] p = csv_max_show  -> groupby_to_csv(OldTable, <<"Show">>, max)
      [] p = csv_min_show  -> groupby_to_csv(OldTable, <<"Show">>, min)
      [] OTHER             -> <<<<StrC(<<"old image">>)>>>>]

-----------------------------------------------------------------------------
(* State *)

VARIABLES
  pc,         \* where main is: "start", "scrape", "clean", "aggregate",
              \* "heatmap", "line", "bar", "done", "crashed"
  crash,      \* the function whose exception ended the run, "" if none
  si,         \* main's position in shows.items()
  sj,         \* scrape_show_data's position in seasons
  hi,         \* main's position in shows.keys() while plotting heatmaps
  show_df,    \* df of scrape_show_data
  df,         \* df of main
  dirs,       \* the output directories that exist
  fs,         \* the files under output/: path -> lines
  calls,      \* history: the (show, season) of each call of the extractor
  fetches,    \* history: the seasons whose fetch returned: whether the frame
              \* could be built and which of its rows had an air-date field
  failed,     \* history: the (show, season) whose fetch raised
  written,    \* history: the paths written in this run, in order
  reads,      \* history: the (path, lines) of each read_csv of this run
  raw,        \* history: the table main passed to clean_and_save_data
  aggruns,    \* history: how often save_aggregated_data has run
  anomalies   \* how many fetches so far were answered with a deviation

vars ==
  << pc, crash, si, sj, hi, show_df, df, dirs, fs, calls, fetches, failed,
     written, reads, raw, aggruns, anomalies >>

history == << calls, fetches, failed, written, reads, raw, aggruns >>

\* Mutant of main_next: the two charts that read the aggregate files are
\* drawn before save_aggregated_data runs.
main_next_render_first(stage) ==
  CASE stage = "scrape"    -> "clean"
    [] stage = "clean"     -> "line"
    [] stage = "line"      -> "bar"
    [] stage = "bar"       -> "aggregate"
    [] stage = "aggregate" -> "heatmap"
    [] stage = "heatmap"   -> "done"

\* The order of the stages in main, lines 254-261.
main_next(stage) ==
  CASE stage = "scrape"    -> "clean"
    [] stage = "clean"     -> "aggregate"
    [] stage = "aggregate" -> "heatmap"
    [] stage = "heatmap"   -> "line"
    [] stage = "line"      -> "bar"
    [] stage = "bar"       -> "done"

Init ==
  /\ pc = "start" /\ crash = ""
  /\ si = 1 /\ sj = 1 /\ hi = 1
  /\ show_df = <<>> /\ df = <<>>
  /\ \/ dirs = {} /\ fs = [p \in Paths |-> Absent]
     \/ dirs = Directories /\ fs = LeftOver
  /\ calls = <<>> /\ fetches = {} /\ failed = {}
  /\ written = <<>> /\ reads = <<>> /\ raw = <<>>
  /\ aggruns = 0 /\ anomalies = 0

\* The history record of a fetch that returned: whether its frame could be
\* built, and the positions in results[1:] of the rows that have a sixth
\* field, the one the frame names "Original air date".
FetchRecord(show, season, r) ==
  [show |-> show, season |-> season, ok |-> r.framed,
   dated |-> {i - 1 : i \in {k \in 1..Len(r.data) : Len(r.data[k]) >= 6}}]

-----------------------------------------------------------------------------
(* main, step by step *)

\* create_output_folders()
create_output_folders ==
  /\ pc = "start"
  /\ dirs' = dirs \cup Directories
  /\ pc' = "scrape"
  /\ UNCHANGED << crash, si, sj, hi, show_df, df, fs, anomalies >>
  /\ UNCHANGED history

\* One iteration of "for season in seasons" in scrape_show_data.
ScrapeSeason ==
  /\ pc = "scrape"
  /\ si <= Len(ShowOrder)
  /\ sj <= Len(shows(ShowOrder[si]))
  /\ \E page \in {NormalPage} \cup AnomalousPages :
       LET show   == ShowOrder[si]
           season == shows(show)[sj]
       IN  \E r \in {scrape_season(show_df, page, show, season)} :
           /\ page # NormalPage => anomalies < MaxAnomalies
           /\ anomalies' = IF page = NormalPage THEN anomalies ELSE anomalies + 1
           /\ calls' = Append(calls, <<show, season>>)
           /\ failed' = IF r.fetched THEN failed ELSE failed \cup {<<show, season>>}
           /\ fetches' = IF r.fetched
                           THEN fetches \cup {FetchRecord(show, season, r)}
                           ELSE fetches
           /\ IF r.propagated
                THEN /\ pc' = "crashed" /\ crash' = "scrape_show_data"
                     /\ UNCHANGED << show_df, sj >>
                ELSE /\ show_df' = r.df
                     /\ sj' = sj + 1
                     /\ UNCHANGED << pc, crash >>
  /\ UNCHANGED << si, hi, df, dirs, fs, written, reads, raw, aggruns >>

\* scrape_show_data returns and main concatenates: line 95, lines 250-252.
ReturnShow ==
  /\ pc = "scrape"
  /\ si <= Len(ShowOrder)
  /\ sj > Len(shows(ShowOrder[si]))
  /\ df' = df \o show_df
  /\ show_df' = <<>>
  /\ si' = si + 1 /\ sj' = 1
  /\ pc' = IF si = Len(ShowOrder) THEN main_next("scrape") ELSE pc
  /\ UNCHANGED << crash, hi, dirs, fs, anomalies >>
  /\ UNCHANGED history

\* clean_and_save_data(df): a coercion that raises ends the run before
\* to_csv; otherwise the canonical table is written and returned.
Clean ==
  /\ pc = "clean"
  /\ raw' = df
  /\ \E r \in {clean(df)} :
       IF r.ok /\ "output/dataframes/" \in dirs
         THEN /\ df' = r.rows
              /\ fs' = WriteFile(fs, csv_canonical, to_csv(r.rows))
              /\ written' = Append(written, csv_canonical)
              /\ pc' = main_next("clean")
              /\ UNCHANGED crash
         ELSE /\ pc' = "crashed" /\ crash' = "clean_and_save_data"
              /\ UNCHANGED << df, fs, written >>
  /\ UNCHANGED << si, sj, hi, show_df, dirs, calls, fetches, failed, reads,
                  aggruns, anomalies >>

\* The four groupings of save_aggregated_data, each written to its file.
save_aggregated_data(files, table) ==
  LET f1 == WriteFile(files, csv_avg_show, groupby_to_csv(table, <<"Show">>, mean))
      f2 == WriteFile(f1, csv_avg_seas,
                      groupby_to_csv(table, <<"Show", "Season">>, mean))
      f3 == WriteFile(f2, csv_max_show, groupby_to_csv(table, <<"Show">>, max))
  IN  WriteFile(f3, csv_min_show, groupby_to_csv(table, <<"Show">>, min))

Aggregate ==
  /\ pc = "aggregate"
  /\ fs' = save_aggregated_data(fs, df)
  /\ written' = written \o <<csv_avg_show, csv_avg_seas, csv_max_show, csv_min_show>>
  /\ aggruns' = aggruns + 1
  /\ pc' = main_next("aggregate")
  /\ UNCHANGED << crash, si, sj, hi, show_df, df, dirs, calls, fetches, failed,
                  reads, raw, anomalies >>

\* show_df.pivot(index='Season', columns='No in Season', values=...): one cell
\* per (Season, No in Season); two rows with one key raise.
pivot(rows) ==
  LET by   == <<"Season", "No in Season">>
      keys == SortKeys({Key(rows[i], by) : i \in 1..Len(rows)})
  IN  [ok |-> Cardinality({Key(rows[i], by) : i \in 1..Len(rows)}) = Len(rows),
       cells |-> [g \in 1..Len(keys) |->
                   keys[g] \o <<(CHOOSE i \in 1..Len(rows) :
                                  Key(rows[i], by) = keys[g]) >>]]

\* plot_heatmap(df, show): the rows of the show, pivoted and drawn.  The
\* pivot raises on a repeated key and the heatmap on an empty table.
plot_heatmap(table, show) ==
  LET show_rows == SelectSeq(table, LAMBDA r : r.cells["Show"] = StrC(show))
      p == pivot(show_rows)
  IN  [ok |-> p.ok /\ show_rows # <<>>,
       image |-> [g \in 1..Len(p.cells) |->
                   << p.cells[g][1], p.cells[g][2],
                      show_rows[p.cells[g][3]].cells["US viewers (millions)"] >>]]

Heatmap ==
  /\ pc = "heatmap"
  /\ hi <= Len(ShowOrder)
  /\ \E show \in {heatmap_name(ShowOrder[hi])} :
     \E r \in {plot_heatmap(df, show)} :
         IF r.ok
           THEN /\ fs' = WriteFile(fs, png_heatmap(show), r.image)
                /\ written' = Append(written, png_heatmap(show))
                /\ hi' = hi + 1
                /\ pc' = IF hi = Len(ShowOrder) THEN main_next("heatmap") ELSE pc
                /\ UNCHANGED crash
           ELSE /\ pc' = "crashed" /\ crash' = "plot_heatmap"
                /\ UNCHANGED << fs, written, hi >>
  /\ UNCHANGED << si, sj, show_df, df, dirs, calls, fetches, failed, reads, raw,
                  aggruns, anomalies >>

\* pd.read_csv(path): the lines of the file; a missing file raises.
read_csv(files, path) == [ok |-> files[path] # Absent, lines |-> files[path]]

\* plot_line_chart(): reads the by-season averages and draws them.
LineChart ==
  /\ pc = "line"
  /\ \E r \in {read_csv(fs, csv_avg_seas)} :
       IF r.ok
         THEN /\ reads' = Append(reads, <<csv_avg_seas, r.lines>>)
              /\ fs' = WriteFile(fs, png_line, Tail(r.lines))
              /\ written' = Append(written, png_line)
              /\ pc' = main_next("line")
              /\ UNCHANGED crash
         ELSE /\ pc' = "crashed" /\ crash' = "plot_line_chart"
              /\ UNCHANGED << fs, written, reads >>
  /\ UNCHANGED << si, sj, hi, show_df, df, dirs, calls, fetches, failed, raw,
                  aggruns, anomalies >>

\* plot_stacked_bar_chart(): reads the three by-show files and overlays them.
BarChart ==
  /\ pc = "bar"
  /\ LET a == read_csv(fs, csv_avg_show)
         x == read_csv(fs, csv_max_show)
         n == read_csv(fs, csv_min_show)
     IN  IF a.ok /\ x.ok /\ n.ok
           THEN /\ reads' = reads \o << <<csv_avg_show, a.lines>>,
                                       <<csv_max_show, x.lines>>,
                                       <<csv_min_show, n.lines>> >>
                /\ fs' = WriteFile(fs, png_bar,
                                   Tail(x.lines) \o Tail(a.lines) \o Tail(n.lines))
                /\ written' = Append(written, png_bar)
                /\ pc' = main_next("bar")
                /\ UNCHANGED crash
           ELSE /\ pc' = "crashed" /\ crash' = "plot_stacked_bar_chart"
                /\ UNCHANGED << fs, written, reads >>
  /\ UNCHANGED << si, sj, hi, show_df, df, dirs, calls, fetches, failed, raw,
                  aggruns, anomalies >>

Next ==
  \/ create_output_folders
  \/ ScrapeSeason
  \/ ReturnShow
  \/ Clean
  \/ Aggregate
  \/ Heatmap
  \/ LineChart
  \/ BarChart

Spec == Init /\ [][Next]_vars

-----------------------------------------------------------------------------
(* The cleaner specification: main from clean_and_save_data on, after a    *)
(* scrape in which the fetches of a few seasons returned pages drawn from  *)
(* CleanerPages and every other fetch raised.                              *)

\* Every configured (show, season), in the order main scrapes them.
RECURSIVE SeasonsFrom(_)
SeasonsFrom(i) ==
  IF i > Len(ShowOrder) THEN <<>>
  ELSE [j \in 1..Len(shows(ShowOrder[i])) |-> <<ShowOrder[i], shows(ShowOrder[i])[j]>>]
         \o SeasonsFrom(i + 1)

ConfiguredOrder == SeasonsFrom(1)

\* scrape_show_data(show, seasons) from season number j on, the remote site
\* answering the fetch of (show, season) with pageOf[show, season].
RECURSIVE scrape_show_data(_, _, _, _)
scrape_show_data(acc, show, j, pageOf) ==
  IF j > Len(shows(show)) THEN acc
  ELSE scrape_show_data(
         scrape_season(acc, pageOf[<<show, shows(show)[j]>>], show, shows(show)[j]).df,
         show, j + 1, pageOf)

\* The seasons whose fetch returns in the cleaner specification.
CleanerSlots ==
  { <<The_Sopranos, 1>>, <<Game_of_Thrones, 1>>, <<Breaking_Bad, 1>>,
    <<Breaking_Bad, 2>> }

SlotPages(slot) ==
  IF slot[1] = Breaking_Bad THEN CleanerPages ELSE {NormalPage, TwoPage, NoTable}

InitClean ==
  \E choice \in [CleanerSlots -> CleanerPages] :
    LET all    == {ConfiguredOrder[k] : k \in 1..Len(ConfiguredOrder)}
        pageOf == [x \in all |-> IF x \in CleanerSlots THEN choice[x] ELSE NoTable]
        got    == {x \in all : pageOf[x].found}
    IN  /\ \A slot \in CleanerSlots : choice[slot] \in SlotPages(slot)
        /\ pc = "clean" /\ crash = ""
        /\ si = Len(ShowOrder) + 1 /\ sj = 1 /\ hi = 1
        /\ show_df = <<>>
        /\ df = scrape_show_data(<<>>, The_Sopranos, 1, pageOf)
                  \o scrape_show_data(<<>>, Game_of_Thrones, 1, pageOf)
                  \o scrape_show_data(<<>>, Breaking_Bad, 1, pageOf)
        /\ dirs = Directories /\ fs = LeftOver
        /\ calls = ConfiguredOrder
        /\ failed = all \ got
        /\ fetches = {FetchRecord(x[1], x[2], scrape_season(<<>>, pageOf[x], x[1], x[2]))
                        : x \in got}
        /\ written = <<>> /\ reads = <<>> /\ raw = <<>>
        /\ aggruns = 0
        /\ anomalies = Cardinality({x \in all : pageOf[x] # NormalPage})

\* save_aggregated_data(df) run again on the unchanged canonical table.
Reaggregate ==
  /\ pc = main_next("aggregate")
  /\ hi = 1
  /\ aggruns >= 1 /\ aggruns < MaxAggRuns
  /\ fs' = save_aggregated_data(fs, df)
  /\ written' = written \o <<csv_avg_show, csv_avg_seas, csv_max_show, csv_min_show>>
  /\ aggruns' = aggruns + 1
  /\ UNCHANGED << pc, crash, si, sj, hi, show_df, df, dirs, calls, fetches, failed,
                  reads, raw, anomalies >>

NextClean ==
  \/ Clean
  \/ Aggregate
  \/ Reaggregate
  \/ Heatmap
  \/ LineChart
  \/ BarChart

SpecClean == InitClean /\ [][NextClean]_vars

-----------------------------------------------------------------------------
(* Definitions the properties share *)

\* Every row the run holds: main's table and the one being accumulated.
AllRows == df \o show_df

\* The index labels of the rows that came from the fetch of (show, season).
RowsOf(show, season) ==
  {AllRows[i].index : i \in {k \in 1..Len(AllRows) :
                               AllRows[k].origin = <<show, season>>}}

CountOf(show, season) ==
  Cardinality({k \in 1..Len(AllRows) : AllRows[k].origin = <<show, season>>})

\* The cleaner has returned the canonical table.
Cleaned == written # <<>>

\* s is the beginning of q.
IsPrefix(s, q) == Len(s) <= Len(q) /\ s = SubSeq(q, 1, Len(s))

Range(s) == {s[i] : i \in 1..Len(s)}

\* The viewership texts the pages use, with the number each one writes once
\* its citation markers are gone (none for "N/A").
ExpectedViewers(text) ==
  CASE text = V_12_3 -> FloatC(123, 10)
    [] text = V_10_6 -> FloatC(53, 5)
    [] text = V_7    -> FloatC(7, 1)
    [] text = V_neg  -> FloatC(-3, 2)
    [] text = N_A    -> NullC
    [] text = V_na_c -> NullC

\* A raw row no coercion of the cleaner can accept: viewership text that is
\* no number once the complete markers are gone, an overall number with a
\* letter, a date that is none, or no season.
FatalViewers == {V_3_27, V_open}

FatalRow(r) ==
  \/ r.cells["US viewers (millions)"].s \in FatalViewers
  \/ r.cells["Overall number"].s = <<"1", "a">>
  \/ r.cells["Original air date"].s = D_tba
  \/ r.cells["Season"].t # "int"

-----------------------------------------------------------------------------
(* Properties of the Show Aggregator *)

\* C1, as stated: the rows the run holds for a season whose fetch returned
\* are all the rows of that fetch that have an air-date field, whatever
\* happened to the seasons before and after it.
C1_FetchedSeasonsKept ==
  \A f \in fetches :
    /\ RowsOf(f.show, f.season) = f.dated
    /\ CountOf(f.show, f.season) = Cardinality(f.dated)

\* C1, amended: the rows the run holds for a season are all its rows with an
\* air-date field when the fetch returned and the nine-column frame could be
\* built from it, and none when either raised; a season that raises takes
\* nothing away from the seasons before it.
C1_ProcessedSeasonsKept ==
  /\ \A f \in fetches :
       /\ RowsOf(f.show, f.season) = IF f.ok THEN f.dated ELSE {}
       /\ CountOf(f.show, f.season) = IF f.ok THEN Cardinality(f.dated) ELSE 0
  /\ \A x \in failed : CountOf(x[1], x[2]) = 0

\* A season was skipped (its fetch or its frame raised) and the table holds
\* rows of an earlier and of a later season of the same show.
C1_Witness ==
  \E i \in 1..Len(ShowOrder) : \E a, b, c \in Range(shows(ShowOrder[i])) :
    /\ a < b /\ b < c
    /\ \/ <<ShowOrder[i], b>> \in failed
       \/ \E f \in fetches : f.show = ShowOrder[i] /\ f.season = b /\ ~f.ok
    /\ CountOf(ShowOrder[i], a) > 0
    /\ CountOf(ShowOrder[i], c) > 0

\* The seasons written in the Season column of the rows of a show.
SeasonsIn(rows, show) ==
  {rows[i].cells["Season"].n : i \in {k \in 1..Len(rows) :
     /\ rows[k].origin[1] = show
     /\ rows[k].cells["Season"].t = "int"}}

\* The (Show, Season) keys of the lines of a by-season CSV, and of a table.
CsvKeys(lines) == {<<lines[i][1], lines[i][2]>> : i \in 2..Len(lines)}
TableKeys(rows) ==
  {<<rows[i].cells["Show"], rows[i].cells["Season"]>> : i \in 1..Len(rows)}

\* C2: no row comes from a season whose fetch raised and no row names such a
\* season; once the aggregates are written, the by-season file has one line
\* for each (Show, Season) of the canonical table and for nothing else, so
\* none for a season whose fetch raised.
C2_FailedSeasonsAbsent ==
  /\ \A i \in 1..Len(AllRows) : AllRows[i].origin \notin failed
  /\ \A x \in failed : x[2] \notin SeasonsIn(AllRows, x[1])
  /\ aggruns >= 1 =>
       /\ CsvKeys(fs[csv_avg_seas]) = TableKeys(df)
       /\ \A x \in failed :
            <<StrC(heatmap_name(x[1])), IntC(x[2])>> \notin CsvKeys(fs[csv_avg_seas])

\* Only the fetch of season 3 of Breaking Bad raised: its rows are those of
\* seasons 1, 2, 4 and 5, in the final table of the show and in the by-season
\* file.
C2_Witness ==
  /\ failed = {<<Breaking_Bad, 3>>}
  /\ aggruns >= 1
  /\ SeasonsIn(df, Breaking_Bad) = {1, 2, 4, 5}
  /\ {k[2].n : k \in {x \in CsvKeys(fs[csv_avg_seas]) :
                       x[1] = StrC(heatmap_name(Breaking_Bad))}} = {1, 2, 4, 5}

\* C3, as stated: every row of the canonical table, as returned and as
\* written, has an air date that is not null.
C3_AirDateNotNull ==
  Cleaned =>
    /\ \A i \in 1..Len(df) : notna(df[i].cells["Original air date"])
    /\ \A i \in 2..Len(fs[csv_canonical]) : notna(fs[csv_canonical][i][8])

-----------------------------------------------------------------------------
(* Properties of the Cleaner/Normalizer *)

RawViewers(i) == raw[i].cells["US viewers (millions)"].s
Viewership(i) == df[i].cells["US viewers (millions)"]

\* C4, as stated: in the canonical table the viewership is null or a number
\* that is not negative.
C4_ViewersNonNegative ==
  Cleaned =>
    \A i \in 1..Len(df) :
      \/ Viewership(i).t = "null"
      \/ Viewership(i).t = "float" /\ Viewership(i).n >= 0

\* C4, amended: in the canonical table the viewership is null or a number,
\* negative only where the raw text has a minus sign, and it is the number
\* the raw text writes outside its citation markers: 12.3 for "12.3[4]".
C4_ViewersNumberOrNull ==
  Cleaned =>
    /\ Len(df) = Len(raw)
    /\ \A i \in 1..Len(df) :
         /\ \/ Viewership(i).t = "null"
            \/ /\ Viewership(i).t = "float"
               /\ Viewership(i).d > 0
               /\ Viewership(i).n < 0 => "-" \in Range(RawViewers(i))
         /\ Viewership(i) = ExpectedViewers(RawViewers(i))

\* The canonical table holds 12.3 for a raw "12.3[4]" and a negative number
\* for a raw "-1.5".
C4_Witness ==
  /\ Cleaned
  /\ \E i \in 1..Len(df) : RawViewers(i) = V_12_3 /\ Viewership(i) = FloatC(123, 10)
  /\ \E i \in 1..Len(df) : RawViewers(i) = V_neg /\ Viewership(i).n < 0

\* C5: the markers are stripped first, then "N/A" becomes null, then the
\* text is read as a number.  So a text that is "N/A" only once its marker
\* is gone is null and no failure, "10.6[a]" is 10.6, and a table with a text
\* such as "3,27[1][2]" makes the cleaner fail instead of yielding a value.
C5_StripThenNullThenCoerce ==
  pc # "clean" =>
    /\ (\E i \in 1..Len(raw) : RawViewers(i) \in FatalViewers)
         => ~Cleaned /\ crash = "clean_and_save_data"
    /\ (\A i \in 1..Len(raw) : ~FatalRow(raw[i])) => Cleaned
    /\ Cleaned =>
         \A i \in 1..Len(df) :
           /\ RawViewers(i) = V_10_6 => Viewership(i) = FloatC(53, 5)
           /\ RawViewers(i) = N_A => Viewership(i) = NullC
           /\ RawViewers(i) = V_na_c => Viewership(i) = NullC

\* A cleaned table with "10.6[a]", "N/A" and "N/A[b]" among its raw texts.
C5_Witness ==
  /\ Cleaned
  /\ \E i \in 1..Len(df) : RawViewers(i) = V_10_6
  /\ \E i \in 1..Len(df) : RawViewers(i) = N_A
  /\ \E i \in 1..Len(df) : RawViewers(i) = V_na_c

\* C6: in the canonical table every Show is the configured name with a blank
\* for each underscore, which is the name main hands to plot_heatmap: the
\* rows plot_heatmap selects for a show are the rows scraped for that show.
C6_ShowWithoutUnderscore ==
  Cleaned =>
    /\ \A i \in 1..Len(df) :
         /\ df[i].cells["Show"].t = "str"
         /\ "_" \notin Range(df[i].cells["Show"].s)
         /\ df[i].cells["Show"].s = heatmap_name(df[i].origin[1])
    /\ \A k \in 1..Len(ShowOrder) :
         SelectSeq(df, LAMBDA r : r.cells["Show"] = StrC(heatmap_name(ShowOrder[k])))
           = SelectSeq(df, LAMBDA r : r.origin[1] = ShowOrder[k])

\* The heatmaps are being drawn and the table has rows of "The Sopranos".
C6_Witness ==
  /\ pc = "heatmap"
  /\ \E i \in 1..Len(df) :
       /\ df[i].origin[1] = The_Sopranos
       /\ df[i].cells["Show"].s = <<"The", " ", "Sopranos">>

\* C8: a raw table with a row that a coercion cannot accept ends the run in
\* clean_and_save_data: nothing was written, read or aggregated in that run,
\* the files are as the run found them, and no step of main follows.
C8_DataQualityFailureIsFatal ==
  pc # "clean" =>
    /\ (\E i \in 1..Len(raw) : FatalRow(raw[i]))
         => pc = "crashed" /\ crash = "clean_and_save_data"
    /\ crash = "clean_and_save_data" =>
         /\ pc = "crashed"
         /\ written = <<>> /\ reads = <<>> /\ aggruns = 0
         /\ fs = LeftOver
         /\ df = raw
         /\ ~ENABLED (Next \/ NextClean)

\* The run ended in the cleaner on an overall number that is not a number.
C8_Witness ==
  /\ pc = "crashed" /\ crash = "clean_and_save_data"
  /\ \E i \in 1..Len(raw) : raw[i].cells["Overall number"].s = <<"1", "a">>

-----------------------------------------------------------------------------
(* Properties of the Aggregation Writer *)

\* C7: a further run of save_aggregated_data on the same canonical table
\* leaves the four aggregate files, the canonical file and the table as the
\* run before left them.
C7_AggregationIdempotent ==
  [][(aggruns >= 1 /\ aggruns' = aggruns + 1) =>
       /\ \A p \in AggregateFiles : fs'[p] = fs[p]
       /\ fs'[csv_canonical] = fs[csv_canonical]
       /\ df' = df]_vars

\* The writer has run twice on a table with two seasons of one show.
C7_Witness ==
  /\ aggruns = 2
  /\ Len(fs[csv_avg_seas]) >= 4
  /\ Len(fs[csv_avg_show]) >= 3

-----------------------------------------------------------------------------
(* Properties of main *)

\* How many fetches precede the one main is at.
RECURSIVE SeasonsBefore(_)
SeasonsBefore(i) ==
  IF i <= 1 THEN 0 ELSE Len(shows(ShowOrder[i - 1])) + SeasonsBefore(i - 1)

\* C9: the extractor is called once for each configured season, in the
\* configured order, whatever the earlier fetches did; no failure of a fetch
\* ends the run: while main scrapes it is at a season of the configuration
\* or at the return of a show, both of which have a next step, and it leaves
\* the scrape only for the cleaner, with every season called.
C9_ScrapeNeverAborts ==
  /\ IsPrefix(calls, ConfiguredOrder)
  /\ pc = "scrape" => Len(calls) = SeasonsBefore(si) + (sj - 1)
  /\ pc \notin {"start", "scrape"} => calls = ConfiguredOrder
  /\ crash # "scrape_show_data"
  /\ pc = "scrape" =>
       /\ si \in 1..Len(ShowOrder)
       /\ sj \in 1..(Len(shows(ShowOrder[si])) + 1)
  /\ (pc \notin {"start", "scrape"} /\ raw = <<>> /\ crash = "") => pc = "clean"

\* The cleaner is about to run although a fetch raised.
C9_Witness == pc = "clean" /\ failed # {} /\ calls = ConfiguredOrder

\* The artifacts in the order main writes them.
ExpectedWrites ==
  <<csv_canonical, csv_avg_show, csv_avg_seas, csv_max_show, csv_min_show>>
    \o [k \in 1..Len(ShowOrder) |-> png_heatmap(heatmap_name(ShowOrder[k]))]
    \o <<png_line, png_bar>>

\* The aggregate of this run's canonical table that belongs in a file.
ThisRun(path) ==
  CASE path = csv_avg_show -> groupby_to_csv(df, <<"Show">>, mean)
    [] path = csv_avg_seas -> groupby_to_csv(df, <<"Show", "Season">>, mean)
    [] path = csv_max_show -> groupby_to_csv(df, <<"Show">>, max)
    [] path = csv_min_show -> groupby_to_csv(df, <<"Show">>, min)

\* C10: the writes of a run are the beginning of one fixed sequence (the
\* canonical file, the four aggregates, the heatmaps, the line chart, the bar
\* chart), so each artifact is written at most once and the canonical file
\* first; nothing is written before every season was scraped; and whatever a
\* chart read from an aggregate file had been written in this run, from this
\* run's canonical table.
C10_StagesInOrder ==
  /\ IsPrefix(written, ExpectedWrites)
  /\ written # <<>> => calls = ConfiguredOrder /\ si = Len(ShowOrder) + 1
  /\ \A k \in 1..Len(reads) :
       /\ reads[k][1] \in AggregateFiles
       /\ reads[k][1] \in Range(written)
       /\ reads[k][2] = ThisRun(reads[k][1])

\* A run that found the files of an earlier run has drawn every chart.
C10_Witness ==
  /\ pc = "done"
  /\ Len(reads) = 4
  /\ written = ExpectedWrites
  /\ fs[csv_avg_seas] # LeftOver[csv_avg_seas]

====
